---- MODULE Spec2Model ----
(***************************************************************************)
(* Model of the broadcast cipher of bmutil (cipher/broadcast.go): the      *)
(* create pipeline (encode for signing, hash, sign, encode for encryption, *)
(* encrypt), the open pipeline (tag filter, decrypt, decode, address       *)
(* check, signature verification) and the byte codec between them; of the  *)
(* inv message of the wire package (MsgInv) and of identity.ImportWIF.     *)
(*                                                                         *)
(* A byte is a number in 0..255 and a stream is a sequence of bytes.  An   *)
(* error is a string, "nil" for the nil error; two errors are the same Go   *)
(* value exactly when the strings are equal.  A nilable pointer is a record *)
(* with a field nil.  The elliptic-curve and hash primitives are external  *)
(* to the repository and are modelled as ideal primitives on small key     *)
(* identifiers.                                                            *)
(***************************************************************************)
EXTENDS Integers, Sequences, FiniteSets, TLC

VARIABLES
    wire,   \* the broadcast object last put on the network (obj.Broadcast)
    call,   \* the last call made: its operation, inputs, results and steps
    inv     \* the inv message a caller builds or decodes into (wire.MsgInv)

vars == <<wire, call, inv>>

Nil == [nil |-> TRUE]

(***************************************************************************)
(* Bounds of the model.                                                    *)
(***************************************************************************)
MaxBodyLen == 2      \* longest message body drawn
NumKeys == 2         \* key pairs 1..NumKeys are valid curve points
MaxExtraSig == 2     \* declared signature lengths up to the maximum + this

(***************************************************************************)
(* Program constants.                                                      *)
(***************************************************************************)
PubKeyLen == 64           \* wire.PubKey: an uncompressed key without prefix
SignatureMaxLength == 80  \* obj.SignatureMaxLength
DERSigLen == 70           \* length of a serialized signature

(***************************************************************************)
(* Byte helpers.                                                           *)
(***************************************************************************)
Pow256(e) == IF e = 0 THEN 1 ELSE IF e = 1 THEN 256 ELSE IF e = 2 THEN 65536 ELSE 16777216

\* big-endian encoding of v (below 2^31) on n bytes
BE(v, n) == [i \in 1..n |-> IF n - i > 3 THEN 0 ELSE (v \div Pow256(n - i)) % 256]

RECURSIVE FromBE(_)
FromBE(b) == IF Len(b) = 0 THEN 0 ELSE FromBE(SubSeq(b, 1, Len(b) - 1)) * 256 + b[Len(b)]

Repeat(x, n) == [i \in 1..n |-> x]

\* sum over lo..hi of (w * i + 1) * b[i], by halves
RECURSIVE WeightedSum(_, _, _, _)
WeightedSum(b, w, lo, hi) ==
    IF lo > hi THEN 0
    ELSE IF lo = hi THEN (w * lo + 1) * b[lo]
    ELSE LET mid == (lo + hi) \div 2
         IN WeightedSum(b, w, lo, mid) + WeightedSum(b, w, mid + 1, hi)

(***************************************************************************)
(* io.Writer: bytes.Buffer (cap = -1, never fails) and fixed.Writer (a     *)
(* write that does not fit fails and writes nothing).                      *)
(***************************************************************************)
NewBuffer == [buf |-> <<>>, cap |-> -1]
NewFixedWriter(max) == [buf |-> <<>>, cap |-> max]

Write(w, p) ==
    IF w.cap >= 0 /\ Len(w.buf) + Len(p) > w.cap
    THEN [w |-> w, err |-> "io.ErrShortWrite"]
    ELSE [w |-> [w EXCEPT !.buf = @ \o p], err |-> "nil"]

\* consecutive checked writes: stop at the first error
RECURSIVE WriteSeq(_, _)
WriteSeq(w, chunks) ==
    IF Len(chunks) = 0 THEN [w |-> w, err |-> "nil"]
    ELSE LET rest(r) == IF r.err # "nil" THEN r ELSE WriteSeq(r.w, Tail(chunks))
         IN rest(Write(w, Head(chunks)))

(***************************************************************************)
(* io.Reader over the remaining bytes r.                                   *)
(***************************************************************************)
ReadFull(r, n) ==
    IF n = 0 THEN [err |-> "nil", bytes |-> <<>>, rest |-> r]
    ELSE IF Len(r) = 0 THEN [err |-> "io.EOF", bytes |-> <<>>, rest |-> r]
    ELSE IF Len(r) < n THEN [err |-> "io.ErrUnexpectedEOF", bytes |-> r, rest |-> <<>>]
    ELSE [err |-> "nil", bytes |-> SubSeq(r, 1, n), rest |-> SubSeq(r, n + 1, Len(r))]

(***************************************************************************)
(* bmutil.WriteVarInt / bmutil.ReadVarInt: the Bitmessage variable length  *)
(* integer (big-endian, discriminants 0xfd, 0xfe, 0xff).                   *)
(***************************************************************************)
VarIntBytes(v) ==
    IF v < 253 THEN <<v>>
    ELSE IF v <= 65535 THEN <<253>> \o BE(v, 2)
    ELSE IF v <= 16777215 THEN <<254>> \o BE(v, 4)
    ELSE <<255>> \o BE(v, 8)

WriteVarInt(w, v) == Write(w, VarIntBytes(v))

ReadVarInt(r) ==
    LET value(b) ==
            IF b.err # "nil" THEN [err |-> b.err, val |-> 0, rest |-> b.rest]
            ELSE [err |-> "nil", val |-> FromBE(b.bytes), rest |-> b.rest]
        discriminant(d) ==
            IF d.err # "nil" THEN [err |-> d.err, val |-> 0, rest |-> d.rest]
            ELSE IF d.bytes[1] < 253
            THEN [err |-> "nil", val |-> d.bytes[1], rest |-> d.rest]
            ELSE value(ReadFull(d.rest, IF d.bytes[1] = 253 THEN 2
                                        ELSE IF d.bytes[1] = 254 THEN 4 ELSE 8))
    IN discriminant(ReadFull(r, 1))

(***************************************************************************)
(* Bitmessage: the decrypted content.  Its broadcast encoding is behavior  *)
(* (4 bytes), signing key, encryption key, the two POW parameters as       *)
(* varints, and the body prefixed by its varint length.                    *)
(***************************************************************************)
NewBitmessage(sk, ek, behavior, nonce, extra, dest, body) ==
    [SigningKey |-> sk, EncryptionKey |-> ek, Behavior |-> behavior,
     Pow |-> [NonceTrialsPerByte |-> nonce, ExtraBytes |-> extra],
     Destination |-> dest, Body |-> body]

ZeroBitmessage == NewBitmessage(<<>>, <<>>, 0, 0, 0, Nil, <<>>)

encodeBroadcast(w, data) ==
    WriteSeq(w, << BE(data.Behavior, 4),
                   data.SigningKey,
                   data.EncryptionKey,
                   VarIntBytes(data.Pow.NonceTrialsPerByte),
                   VarIntBytes(data.Pow.ExtraBytes),
                   VarIntBytes(Len(data.Body)),
                   data.Body >>)

decodeBroadcast(r) ==
    LET fail(e) == [err |-> e, data |-> ZeroBitmessage, rest |-> <<>>]
        readBody(b, sk, ek, nt, eb, body) ==
            IF body.err # "nil" THEN fail(body.err) ELSE
            [err |-> "nil",
             data |-> NewBitmessage(sk.bytes, ek.bytes, FromBE(b.bytes),
                                    nt.val, eb.val, Nil, body.bytes),
             rest |-> body.rest]
        readLength(b, sk, ek, nt, eb, n) ==
            IF n.err # "nil" THEN fail(n.err)
            ELSE readBody(b, sk, ek, nt, eb, ReadFull(n.rest, n.val))
        readExtra(b, sk, ek, nt, eb) ==
            IF eb.err # "nil" THEN fail(eb.err)
            ELSE readLength(b, sk, ek, nt, eb, ReadVarInt(eb.rest))
        readNonce(b, sk, ek, nt) ==
            IF nt.err # "nil" THEN fail(nt.err)
            ELSE readExtra(b, sk, ek, nt, ReadVarInt(nt.rest))
        readEncKey(b, sk, ek) ==
            IF ek.err # "nil" THEN fail(ek.err)
            ELSE readNonce(b, sk, ek, ReadVarInt(ek.rest))
        readSignKey(b, sk) ==
            IF sk.err # "nil" THEN fail(sk.err)
            ELSE readEncKey(b, sk, ReadFull(sk.rest, PubKeyLen))
        readBehavior(b) ==
            IF b.err # "nil" THEN fail(b.err)
            ELSE readSignKey(b, ReadFull(b.rest, PubKeyLen))
    IN readBehavior(ReadFull(r, 4))

(***************************************************************************)
(* Broadcast: the object, the content and the signature.                   *)
(***************************************************************************)
NewBroadcast(msg, data, signature) ==
    [nil |-> FALSE, msg |-> msg, data |-> data, signature |-> signature]

\* Broadcast.encodeForEncryption without the signature length
encodeForEncryption_NoLength(w, broadcast) ==
    LET writeSignature(r1) ==
            IF r1.err # "nil" THEN r1 ELSE Write(r1.w, broadcast.signature)
    IN writeSignature(encodeBroadcast(w, broadcast.data))

\* Broadcast.encodeForEncryption
encodeForEncryption(w, broadcast) ==
    LET writeSignature(r2) ==
            IF r2.err # "nil" THEN r2 ELSE Write(r2.w, broadcast.signature)
        writeLength(r1) ==
            IF r1.err # "nil" THEN r1
            ELSE writeSignature(WriteVarInt(r1.w, Len(broadcast.signature)))
    IN writeLength(encodeBroadcast(w, broadcast.data))

\* Broadcast.decodeFromDecrypted without the maximum on the signature length
decodeFromDecrypted_NoMax(r) ==
    LET fail(e, data) == [err |-> e, data |-> data, signature |-> <<>>,
                          alloc |-> -1, sigRead |-> FALSE]
        readSignature(d, sl, s) ==
            [err |-> s.err, data |-> d.data,
             signature |-> s.bytes \o Repeat(0, sl.val - Len(s.bytes)),
             alloc |-> sl.val, sigRead |-> TRUE]
        readLength(d, sl) ==
            IF sl.err # "nil" THEN fail(sl.err, d.data)
            ELSE readSignature(d, sl, ReadFull(sl.rest, sl.val))
        readData(d) ==
            IF d.err # "nil" THEN fail(d.err, d.data)
            ELSE readLength(d, ReadVarInt(d.rest))
    IN readData(decodeBroadcast(r))

\* Broadcast.decodeFromDecrypted dropping the error of the last read
decodeFromDecrypted_IgnoreRead(r) ==
    LET fail(e, data) == [err |-> e, data |-> data, signature |-> <<>>,
                          alloc |-> -1, sigRead |-> FALSE]
        readSignature(d, sl, s) ==
            [err |-> "nil", data |-> d.data,
             signature |-> s.bytes \o Repeat(0, sl.val - Len(s.bytes)),
             alloc |-> sl.val, sigRead |-> TRUE]
        readLength(d, sl) ==
            IF sl.err # "nil" THEN fail(sl.err, d.data)
            ELSE IF sl.val > SignatureMaxLength
            THEN fail("MessageError: DecodeFromDecrypted", d.data)
            ELSE readSignature(d, sl, ReadFull(sl.rest, sl.val))
        readData(d) ==
            IF d.err # "nil" THEN fail(d.err, d.data)
            ELSE readLength(d, ReadVarInt(d.rest))
    IN readData(decodeBroadcast(r))

\* Broadcast.decodeFromDecrypted; alloc is the size of the signature buffer
\* made (-1 when none was), sigRead whether the signature was read
decodeFromDecrypted(r) ==
    LET fail(e, data) == [err |-> e, data |-> data, signature |-> <<>>,
                          alloc |-> -1, sigRead |-> FALSE]
        readSignature(d, sl, s) ==
            [err |-> s.err, data |-> d.data,
             signature |-> s.bytes \o Repeat(0, sl.val - Len(s.bytes)),
             alloc |-> sl.val, sigRead |-> TRUE]
        readLength(d, sl) ==
            IF sl.err # "nil" THEN fail(sl.err, d.data)
            ELSE IF sl.val > SignatureMaxLength
            THEN fail("MessageError: DecodeFromDecrypted", d.data)
            ELSE readSignature(d, sl, ReadFull(sl.rest, sl.val))
        readData(d) ==
            IF d.err # "nil" THEN fail(d.err, d.data)
            ELSE readLength(d, ReadVarInt(d.rest))
    IN readData(decodeBroadcast(r))

(***************************************************************************)
(* Keys.  A key pair is an identifier; pairs 1..NumKeys are points of the  *)
(* curve.  The wire form of a public key is PubKeyLen bytes.               *)
(***************************************************************************)
KeyIds == 1..NumKeys

PubKeyBytes(k) == Repeat(k, PubKeyLen)

\* btcec.PublicKey.SerializeUncompressed
SerializeUncompressed(k) == <<4>> \o PubKeyBytes(k)

\* wire.PubKey.ToBtcec: fails on bytes that are no point of the curve
ToBtcec(b) ==
    IF \E k \in KeyIds : b = PubKeyBytes(k)
    THEN [err |-> "nil", key |-> b[1]]
    ELSE [err |-> "btcec: invalid public key", key |-> 0]

(***************************************************************************)
(* Addresses and identities.                                               *)
(***************************************************************************)
\* hashHelper: ripemd160(sha512(signingKey ++ decryptionKey)), an ideal hash
\* of the two serialized keys
hashHelper(signingKey, decryptionKey) == <<signingKey[2], decryptionKey[2]>>

createAddress(version, stream, ripe) ==
    [version |-> version, stream |-> stream, ripe |-> ripe]

\* Address.String: the text form, one to one on addresses
String(address) == <<address.version * 16 + address.stream>> \o address.ripe

\* identity.NewPublic(...).Address(): behavior and pow are carried by the
\* identity and do not enter its address
NewPublicAddress(signKey, encKey, behavior, pow, version, stream) ==
    createAddress(version, stream,
                  hashHelper(SerializeUncompressed(signKey),
                             SerializeUncompressed(encKey)))

NewPrivate(sk, dk, version, stream, behavior, nonce, extra) ==
    [address |-> createAddress(version, stream,
                    hashHelper(SerializeUncompressed(sk), SerializeUncompressed(dk))),
     SigningKey |-> sk, DecryptionKey |-> dk, Behavior |-> behavior,
     NonceTrialsPerByte |-> nonce, ExtraBytes |-> extra]

\* the key pair every holder of the address derives from it
AddressBytes(address) == <<address.version, address.stream>> \o address.ripe
V4BroadcastDecryptionKey(address) == <<4>> \o AddressBytes(address)
V5BroadcastDecryptionKey(address) == <<5>> \o AddressBytes(address)
Tag(address) == <<32>> \o AddressBytes(address)

\* subtle.ConstantTimeCompare
ConstantTimeCompare(x, y) == IF Len(x) = Len(y) /\ x = y THEN 1 ELSE 0

(***************************************************************************)
(* Hashing, signing and encryption primitives.                             *)
(***************************************************************************)
\* a digest: the algorithm, and checksums standing for the hash of b
Digest(alg, b) ==
    <<alg, Len(b) % 256, WeightedSum(b, 0, 1, Len(b)) % 256,
      WeightedSum(b, 1, 1, Len(b)) % 251>>
Sha256(b) == Digest(2, b)
Sha1(b) == Digest(1, b)

\* PrivateKey.Sign then Signature.Serialize: a DER sequence
SignSerialize(priv, digest) ==
    <<48, DERSigLen - 2, priv>> \o digest \o Repeat(0, DERSigLen - 7)

ParseSignature(b) ==
    IF Len(b) >= 7 /\ b[1] = 48 /\ b[2] = Len(b) - 2
    THEN [err |-> "nil", key |-> b[3], digest |-> SubSeq(b, 4, 7)]
    ELSE [err |-> "malformed signature", key |-> 0, digest |-> <<>>]

\* Signature.Verify
Verify(sig, digest, pubKey) == sig.key = pubKey /\ sig.digest = digest

\* btcec.Encrypt / btcec.Decrypt (ECIES)
Ciphertext(pubKey, data) == [malformed |-> FALSE, to |-> pubKey, plain |-> data]

Decrypt(key, encrypted) ==
    IF encrypted.malformed THEN [err |-> "btcec: input too short", dec |-> <<>>]
    ELSE IF encrypted.to # key THEN [err |-> "ErrInvalidMAC", dec |-> <<>>]
    ELSE [err |-> "nil", dec |-> encrypted.plain]

(***************************************************************************)
(* Object headers and the two broadcast objects.                           *)
(***************************************************************************)
ObjectTypeBroadcast == 3
TaglessBroadcastVersion == 4
TaggedBroadcastVersion == 5

\* wire.ObjectHeader.EncodeForSigning: the header without its nonce
HeaderEncodeForSigning(w, expiration, objType, version, stream) ==
    WriteSeq(w, << BE(expiration, 8), BE(objType, 4),
                   VarIntBytes(version), VarIntBytes(stream) >>)

\* obj.NewTaglessBroadcast / obj.NewTaggedBroadcast
NewTaglessObject(expiration, stream, encrypted) ==
    [nil |-> FALSE, version |-> TaglessBroadcastVersion, expiration |-> expiration,
     stream |-> stream, tag |-> <<>>, encrypted |-> encrypted]

NewTaggedObject(expiration, stream, tag, encrypted) ==
    [nil |-> FALSE, version |-> TaggedBroadcastVersion, expiration |-> expiration,
     stream |-> stream, tag |-> tag, encrypted |-> encrypted]

\* obj.Broadcast.EncodeForSigning
ObjectEncodeForSigning(w, msg) ==
    LET writeTag(r) ==
            IF r.err # "nil" THEN r
            ELSE IF msg.version = TaggedBroadcastVersion THEN Write(r.w, msg.tag)
            ELSE r
    IN writeTag(HeaderEncodeForSigning(w, msg.expiration, ObjectTypeBroadcast,
                                       msg.version, msg.stream))

(***************************************************************************)
(* incompleteTaglessBroadcast / incompleteTaggedBroadcast                  *)
(***************************************************************************)
IncompleteTagless(expiration, streamNumber) ==
    [tagged |-> FALSE, expiration |-> expiration, streamNumber |-> streamNumber,
     tag |-> <<>>]

IncompleteTagged(expiration, streamNumber, tag) ==
    [tagged |-> TRUE, expiration |-> expiration, streamNumber |-> streamNumber,
     tag |-> tag]

\* incompleteTaglessBroadcast.Encode
TaglessEncode(w, i) ==
    HeaderEncodeForSigning(w, i.expiration, ObjectTypeBroadcast,
                           TaglessBroadcastVersion, i.streamNumber)

\* incompleteTaggedBroadcast.Encode
TaggedEncode(w, i) ==
    LET writeTag(r) == IF r.err # "nil" THEN r ELSE Write(r.w, i.tag)
    IN writeTag(HeaderEncodeForSigning(w, i.expiration, ObjectTypeBroadcast,
                                       TaggedBroadcastVersion, i.streamNumber))

IncompleteEncode(w, i) == IF i.tagged THEN TaggedEncode(w, i) ELSE TaglessEncode(w, i)

\* incompleteTaglessBroadcast.Encrypt; fails when the primitive does
TaglessEncrypt(i, address, data, encryptErr) ==
    IF encryptErr # "nil" THEN [err |-> encryptErr, msg |-> Nil]
    ELSE [err |-> "nil",
          msg |-> NewTaglessObject(i.expiration, i.streamNumber,
                      Ciphertext(V4BroadcastDecryptionKey(address), data))]

\* incompleteTaggedBroadcast.Encrypt with the version 4 key derivation
TaggedEncrypt_V4Key(i, address, data, encryptErr) ==
    IF encryptErr # "nil" THEN [err |-> encryptErr, msg |-> Nil]
    ELSE [err |-> "nil",
          msg |-> NewTaggedObject(i.expiration, i.streamNumber, i.tag,
                      Ciphertext(V4BroadcastDecryptionKey(address), data))]

\* incompleteTaggedBroadcast.Encrypt
TaggedEncrypt(i, address, data, encryptErr) ==
    IF encryptErr # "nil" THEN [err |-> encryptErr, msg |-> Nil]
    ELSE [err |-> "nil",
          msg |-> NewTaggedObject(i.expiration, i.streamNumber, i.tag,
                      Ciphertext(V5BroadcastDecryptionKey(address), data))]

IncompleteEncrypt(i, address, data, encryptErr) ==
    IF i.tagged THEN TaggedEncrypt(i, address, data, encryptErr)
    ELSE TaglessEncrypt(i, address, data, encryptErr)

\* broadcastEncodeForSigning
broadcastEncodeForSigning(w, i, data) ==
    LET writeData(r) == IF r.err # "nil" THEN r ELSE encodeBroadcast(r.w, data)
    IN writeData(IncompleteEncode(w, i))

\* Broadcast.encodeForSigning
encodeForSigning(w, broadcast) ==
    LET writeData(r) == IF r.err # "nil" THEN r ELSE encodeBroadcast(r.w, broadcast.data)
    IN writeData(ObjectEncodeForSigning(w, broadcast.msg))

\* signAndEncrypt returning the encryption primitive's error as it is
signAndEncrypt_Unwrapped(broadcast, i, address, private, signErr, encryptErr) ==
    LET result(err, cause, b, steps) ==
            [err |-> err, cause |-> cause, broadcast |-> b, steps |-> steps]
        all == <<"encodeForSigning", "hash", "sign", "encodeForEncryption", "encrypt">>
        encrypted(signed, e) ==
            IF e.err # "nil"
            THEN result(e.err, e.err, [signed EXCEPT !.msg = e.msg], all)
            ELSE result("nil", "nil", [signed EXCEPT !.msg = e.msg], all)
        encoded(signed, r2) ==
            IF r2.err # "nil"
            THEN result(r2.err, r2.err, signed, SubSeq(all, 1, 4))
            ELSE encrypted(signed, IncompleteEncrypt(i, address, r2.w.buf, encryptErr))
        sign(signed) == encoded(signed, encodeForEncryption(NewBuffer, signed))
        hashed(hash) ==
            IF signErr # "nil"
            THEN result("signing failed: " \o signErr, signErr, broadcast,
                        SubSeq(all, 1, 3))
            ELSE sign([broadcast EXCEPT
                          !.signature = SignSerialize(private.SigningKey, hash)])
        start(r1) ==
            IF r1.err # "nil"
            THEN result(r1.err, r1.err, broadcast, SubSeq(all, 1, 1))
            ELSE hashed(Sha256(r1.w.buf))
    IN start(broadcastEncodeForSigning(NewBuffer, i, broadcast.data))

(***************************************************************************)
(* The create pipeline.  signErr and encryptErr are the errors the signing *)
(* and encryption primitives return in this call ("nil" when they work).   *)
(***************************************************************************)
signAndEncrypt(broadcast, i, address, private, signErr, encryptErr) ==
    LET result(err, cause, b, steps) ==
            [err |-> err, cause |-> cause, broadcast |-> b, steps |-> steps]
        all == <<"encodeForSigning", "hash", "sign", "encodeForEncryption", "encrypt">>
        encrypted(signed, e) ==
            IF e.err # "nil"
            THEN result("encryption failed: " \o e.err, e.err,
                        [signed EXCEPT !.msg = e.msg], all)
            ELSE result("nil", "nil", [signed EXCEPT !.msg = e.msg], all)
        encoded(signed, r2) ==
            IF r2.err # "nil"
            THEN result(r2.err, r2.err, signed, SubSeq(all, 1, 4))
            ELSE encrypted(signed, IncompleteEncrypt(i, address, r2.w.buf, encryptErr))
        sign(signed) == encoded(signed, encodeForEncryption(NewBuffer, signed))
        hashed(hash) ==
            IF signErr # "nil"
            THEN result("signing failed: " \o signErr, signErr, broadcast,
                        SubSeq(all, 1, 3))
            ELSE sign([broadcast EXCEPT
                          !.signature = SignSerialize(private.SigningKey, hash)])
        start(r1) ==
            IF r1.err # "nil"
            THEN result(r1.err, r1.err, broadcast, SubSeq(all, 1, 1))
            ELSE hashed(Sha256(r1.w.buf))
    IN start(broadcastEncodeForSigning(NewBuffer, i, broadcast.data))

CreateResult(err, cause, broadcast, steps) ==
    [err |-> err, cause |-> cause, broadcast |-> broadcast, steps |-> steps]

\* CreateTaglessBroadcast
CreateTaglessBroadcast(expiration, data, private, signErr, encryptErr) ==
    LET return(r) ==
            IF r.err # "nil" THEN CreateResult(r.err, r.cause, Nil, r.steps)
            ELSE CreateResult(r.err, r.cause, r.broadcast, r.steps)
        pipeline(address) ==
            return(signAndEncrypt(NewBroadcast(Nil, data, <<>>),
                                  IncompleteTagless(expiration, address.stream),
                                  address, private, signErr, encryptErr))
    IN IF ~data.Destination.nil
       THEN CreateResult("Broadcasts do not have a destination.", "nil", Nil, <<>>)
       ELSE pipeline(private.address)

\* CreateTaggedBroadcast with the destination test made after the pipeline ran
CreateTaggedBroadcast_LateCheck(expires, data, tag, private, signErr, encryptErr) ==
    LET return(r) ==
            IF ~data.Destination.nil
            THEN CreateResult("Broadcasts do not have a destination.", "nil", Nil, r.steps)
            ELSE IF r.err # "nil" THEN CreateResult(r.err, r.cause, Nil, r.steps)
            ELSE CreateResult("nil", r.cause, r.broadcast, r.steps)
        pipeline(address) ==
            return(signAndEncrypt(NewBroadcast(Nil, data, <<>>),
                                  IncompleteTagged(expires, address.stream, tag),
                                  address, private, signErr, encryptErr))
    IN pipeline(private.address)

\* CreateTaggedBroadcast
CreateTaggedBroadcast(expires, data, tag, private, signErr, encryptErr) ==
    LET return(r) ==
            IF r.err # "nil" THEN CreateResult(r.err, r.cause, Nil, r.steps)
            ELSE CreateResult("nil", r.cause, r.broadcast, r.steps)
        pipeline(address) ==
            return(signAndEncrypt(NewBroadcast(Nil, data, <<>>),
                                  IncompleteTagged(expires, address.stream, tag),
                                  address, private, signErr, encryptErr))
    IN IF ~data.Destination.nil
       THEN CreateResult("Broadcasts do not have a destination.", "nil", Nil, <<>>)
       ELSE pipeline(private.address)

(***************************************************************************)
(* The open pipeline.                                                      *)
(***************************************************************************)
ErrInvalidIdentity == "ErrInvalidIdentity"
ErrInvalidSignature == "ErrInvalidSignature"
ErrInvalidMAC == "ErrInvalidMAC"

\* the error fmt.Errorf builds on an address mismatch
SpoofingError(dencAddr, genAddr) ==
    "Address used for decryption doesn't match that generated from public key. Possible surreptitious forwarding attack."

\* Broadcast.verify checking the signature before the address
verify_SignatureFirst(broadcast, address) ==
    LET pre == <<"encodeForSigning", "hash", "parseSignature">>
        compare(genAddr, dencAddr, steps) ==
            IF dencAddr # genAddr
            THEN [err |-> SpoofingError(dencAddr, genAddr),
                  steps |-> steps \o <<"addressCheck">>]
            ELSE [err |-> "nil", steps |-> steps \o <<"addressCheck">>]
        check(signKey, genAddr, hash, sha1hash, sig) ==
                IF sig.err # "nil"
                THEN [err |-> ErrInvalidSignature, steps |-> pre]
                ELSE IF ~Verify(sig, hash, signKey.key)
                THEN IF ~Verify(sig, sha1hash, signKey.key)
                     THEN [err |-> ErrInvalidSignature,
                           steps |-> pre \o <<"verifySha256", "verifySha1">>]
                     ELSE compare(genAddr, String(address),
                                  pre \o <<"verifySha256", "verifySha1">>)
                ELSE compare(genAddr, String(address), pre \o <<"verifySha256">>)
        signed(signKey, genAddr, b) ==
            IF b.err # "nil"
            THEN [err |-> b.err, steps |-> SubSeq(pre, 1, 1)]
            ELSE check(signKey, genAddr, Sha256(b.w.buf), Sha1(b.w.buf),
                       ParseSignature(broadcast.signature))
        keys(signKey, encKey) ==
            IF signKey.err # "nil" THEN [err |-> signKey.err, steps |-> <<>>]
            ELSE IF encKey.err # "nil" THEN [err |-> encKey.err, steps |-> <<>>]
            ELSE signed(signKey,
                        String(NewPublicAddress(signKey.key, encKey.key,
                                   broadcast.data.Behavior, broadcast.data.Pow,
                                   address.version, address.stream)),
                        encodeForSigning(NewBuffer, broadcast))
    IN keys(ToBtcec(broadcast.data.SigningKey), ToBtcec(broadcast.data.EncryptionKey))

\* Broadcast.verify without the legacy hash
verify_NoLegacy(broadcast, address) ==
    LET pre == <<"addressCheck", "encodeForSigning", "hash", "parseSignature">>
        check(signKey, hash, sha1hash, sig) ==
                IF sig.err # "nil"
                THEN [err |-> ErrInvalidSignature, steps |-> pre]
                ELSE IF ~Verify(sig, hash, signKey.key)
                THEN [err |-> ErrInvalidSignature, steps |-> pre \o <<"verifySha256">>]
                ELSE [err |-> "nil", steps |-> pre \o <<"verifySha256">>]
        signed(signKey, b) ==
            IF b.err # "nil"
            THEN [err |-> b.err, steps |-> SubSeq(pre, 1, 2)]
            ELSE check(signKey, Sha256(b.w.buf), Sha1(b.w.buf),
                       ParseSignature(broadcast.signature))
        compare(signKey, genAddr, dencAddr) ==
            IF dencAddr # genAddr
            THEN [err |-> SpoofingError(dencAddr, genAddr), steps |-> SubSeq(pre, 1, 1)]
            ELSE signed(signKey, encodeForSigning(NewBuffer, broadcast))
        keys(signKey, encKey) ==
            IF signKey.err # "nil" THEN [err |-> signKey.err, steps |-> <<>>]
            ELSE IF encKey.err # "nil" THEN [err |-> encKey.err, steps |-> <<>>]
            ELSE compare(signKey,
                         String(NewPublicAddress(signKey.key, encKey.key,
                                    broadcast.data.Behavior, broadcast.data.Pow,
                                    address.version, address.stream)),
                         String(address))
    IN keys(ToBtcec(broadcast.data.SigningKey), ToBtcec(broadcast.data.EncryptionKey))

\* Broadcast.verify
verify(broadcast, address) ==
    LET pre == <<"addressCheck", "encodeForSigning", "hash", "parseSignature">>
        check(signKey, hash, sha1hash, sig) ==
                IF sig.err # "nil"
                THEN [err |-> ErrInvalidSignature, steps |-> pre]
                ELSE IF ~Verify(sig, hash, signKey.key)
                THEN IF ~Verify(sig, sha1hash, signKey.key)
                     THEN [err |-> ErrInvalidSignature,
                           steps |-> pre \o <<"verifySha256", "verifySha1">>]
                     ELSE [err |-> "nil",
                           steps |-> pre \o <<"verifySha256", "verifySha1">>]
                ELSE [err |-> "nil", steps |-> pre \o <<"verifySha256">>]
        signed(signKey, b) ==
            IF b.err # "nil"
            THEN [err |-> b.err, steps |-> SubSeq(pre, 1, 2)]
            ELSE check(signKey, Sha256(b.w.buf), Sha1(b.w.buf),
                       ParseSignature(broadcast.signature))
        compare(signKey, genAddr, dencAddr) ==
            IF dencAddr # genAddr
            THEN [err |-> SpoofingError(dencAddr, genAddr), steps |-> SubSeq(pre, 1, 1)]
            ELSE signed(signKey, encodeForSigning(NewBuffer, broadcast))
        keys(signKey, encKey) ==
            IF signKey.err # "nil" THEN [err |-> signKey.err, steps |-> <<>>]
            ELSE IF encKey.err # "nil" THEN [err |-> encKey.err, steps |-> <<>>]
            ELSE compare(signKey,
                         String(NewPublicAddress(signKey.key, encKey.key,
                                    broadcast.data.Behavior, broadcast.data.Pow,
                                    address.version, address.stream)),
                         String(address))
    IN keys(ToBtcec(broadcast.data.SigningKey), ToBtcec(broadcast.data.EncryptionKey))

OpenResult(err, broadcast, steps) ==
    [err |-> err, broadcast |-> broadcast, steps |-> steps]

\* newBroadcast reporting every decryption failure as an invalid identity
newBroadcast_AllIdentity(msg, key, address) ==
    LET verified(broadcast, v) ==
            IF v.err # "nil"
            THEN OpenResult(v.err, Nil, <<"decrypt", "decode">> \o v.steps)
            ELSE OpenResult("nil", broadcast, <<"decrypt", "decode">> \o v.steps)
        decoded(dd) ==
            IF dd.err # "nil" THEN OpenResult(dd.err, Nil, <<"decrypt", "decode">>)
            ELSE verified(NewBroadcast(msg, dd.data, dd.signature),
                          verify(NewBroadcast(msg, dd.data, dd.signature), address))
        decrypted(d) ==
            IF d.err # "nil"
            THEN OpenResult(ErrInvalidIdentity, Nil, <<"decrypt">>)
            ELSE decoded(decodeFromDecrypted(d.dec))
    IN decrypted(Decrypt(key, msg.encrypted))

\* newBroadcast returning the broadcast whatever verify says
newBroadcast_IgnoreVerify(msg, key, address) ==
    LET verified(broadcast, v) ==
            OpenResult("nil", broadcast, <<"decrypt", "decode">> \o v.steps)
        decoded(dd) ==
            IF dd.err # "nil" THEN OpenResult(dd.err, Nil, <<"decrypt", "decode">>)
            ELSE verified(NewBroadcast(msg, dd.data, dd.signature),
                          verify(NewBroadcast(msg, dd.data, dd.signature), address))
        decrypted(d) ==
            IF d.err # "nil"
            THEN IF d.err = ErrInvalidMAC
                 THEN OpenResult(ErrInvalidIdentity, Nil, <<"decrypt">>)
                 ELSE OpenResult(d.err, Nil, <<"decrypt">>)
            ELSE decoded(decodeFromDecrypted(d.dec))
    IN decrypted(Decrypt(key, msg.encrypted))

\* newBroadcast
newBroadcast(msg, key, address) ==
    LET verified(broadcast, v) ==
            IF v.err # "nil"
            THEN OpenResult(v.err, Nil, <<"decrypt", "decode">> \o v.steps)
            ELSE OpenResult("nil", broadcast, <<"decrypt", "decode">> \o v.steps)
        decoded(dd) ==
            IF dd.err # "nil" THEN OpenResult(dd.err, Nil, <<"decrypt", "decode">>)
            ELSE verified(NewBroadcast(msg, dd.data, dd.signature),
                          verify(NewBroadcast(msg, dd.data, dd.signature), address))
        decrypted(d) ==
            IF d.err # "nil"
            THEN IF d.err = ErrInvalidMAC
                 THEN OpenResult(ErrInvalidIdentity, Nil, <<"decrypt">>)
                 ELSE OpenResult(d.err, Nil, <<"decrypt">>)
            ELSE decoded(decodeFromDecrypted(d.dec))
    IN decrypted(Decrypt(key, msg.encrypted))

\* NewTaglessBroadcast
NewTaglessBroadcast(msg, address) ==
    LET return(r) == IF r.err # "nil" THEN OpenResult(r.err, Nil, r.steps) ELSE r
    IN return(newBroadcast(msg, V4BroadcastDecryptionKey(address), address))

\* NewTaggedBroadcast without the tag filter
NewTaggedBroadcast_NoTagCheck(msg, address) ==
    LET return(r) == IF r.err # "nil" THEN OpenResult(r.err, Nil, r.steps) ELSE r
    IN return(newBroadcast(msg, V5BroadcastDecryptionKey(address), address))

\* NewTaggedBroadcast
NewTaggedBroadcast(msg, address) ==
    LET return(r) == IF r.err # "nil" THEN OpenResult(r.err, Nil, r.steps) ELSE r
    IN IF ConstantTimeCompare(msg.tag, Tag(address)) # 1
       THEN OpenResult(ErrInvalidIdentity, Nil, <<>>)
       ELSE return(newBroadcast(msg, V5BroadcastDecryptionKey(address), address))

(***************************************************************************)
(* Inputs.                                                                 *)
(***************************************************************************)
Versions == {3, 4}
Streams == {1}
Expirations == {300}
Behaviors == {1000}
PowValues == {1000}

Bodies == UNION {[1..n -> {7}] : n \in 0..MaxBodyLen}

\* identities whose address is the address of their keys
Identities ==
    {NewPrivate(k, k, v, st, b, nt, nt) :
        k \in KeyIds, v \in Versions, st \in Streams,
        b \in Behaviors, nt \in PowValues}

Addresses == {p.address : p \in Identities}

\* key bytes a message may carry: the valid keys and one that is no point
KeyBytes == {PubKeyBytes(k) : k \in 0..NumKeys}

Destinations == {Nil, [nil |-> FALSE, ripe |-> <<1, 1>>]}

Messages ==
    {NewBitmessage(sk, ek, b, nt, nt, dest, body) :
        sk \in KeyBytes, ek \in KeyBytes, b \in Behaviors, nt \in PowValues,
        dest \in Destinations, body \in Bodies}

\* what the signing and the encryption primitive return in a call
PrimitiveErrs == {<<"nil", "nil">>, <<"sign error", "nil">>, <<"nil", "encrypt error">>}

(***************************************************************************)
(* The state machine of the pipeline: a call is one step.                  *)
(***************************************************************************)
Init ==
    /\ wire = Nil
    /\ call = [op |-> "init"]
    /\ inv = Nil

\* No call reads anything an earlier call left behind, so a behaviour is one
\* scenario: an object is created, the network delivers it or a variant of
\* it, and it is opened.
DoCreateTagless ==
    /\ call.op = "init"
    /\ \E expiration \in Expirations, data \in Messages, private \in Identities,
          pe \in PrimitiveErrs :
        LET done(r) ==
                /\ call' = [op |-> "CreateTaglessBroadcast", data |-> data,
                            private |-> private, signErr |-> pe[1],
                            encryptErr |-> pe[2], err |-> r.err, cause |-> r.cause,
                            out |-> r.broadcast, steps |-> r.steps]
                /\ wire' = IF r.broadcast.nil THEN Nil ELSE r.broadcast.msg
        IN done(CreateTaglessBroadcast(expiration, data, private, pe[1], pe[2]))
    /\ UNCHANGED inv

\* the tag is the caller's: that of the identity's address, or that of the
\* address the same keys have under another version
TagAddresses(private) == {a \in Addresses : a.ripe = private.address.ripe}

DoCreateTagged ==
    /\ call.op = "init"
    /\ \E expires \in Expirations, data \in Messages, private \in Identities,
          pe \in PrimitiveErrs :
       \E a \in TagAddresses(private) :
        LET done(tag, r) ==
                /\ call' = [op |-> "CreateTaggedBroadcast", data |-> data,
                            private |-> private, signErr |-> pe[1],
                            encryptErr |-> pe[2], tag |-> tag,
                            err |-> r.err, cause |-> r.cause,
                            out |-> r.broadcast, steps |-> r.steps]
                /\ wire' = IF r.broadcast.nil THEN Nil ELSE r.broadcast.msg
        IN done(Tag(a), CreateTaggedBroadcast(expires, data, Tag(a), private, pe[1], pe[2]))
    /\ UNCHANGED inv

DoNewTagless ==
    /\ ~wire.nil
    /\ wire.version = TaglessBroadcastVersion
    /\ \E address \in Addresses :
        LET done(r) ==
                call' = [op |-> "NewTaglessBroadcast", msg |-> wire, address |-> address,
                         err |-> r.err, out |-> r.broadcast, steps |-> r.steps]
        IN done(NewTaglessBroadcast(wire, address))
    /\ UNCHANGED <<wire, inv>>

DoNewTagged ==
    /\ ~wire.nil
    /\ wire.version = TaggedBroadcastVersion
    /\ \E address \in Addresses :
        LET done(r) ==
                call' = [op |-> "NewTaggedBroadcast", msg |-> wire, address |-> address,
                         err |-> r.err, out |-> r.broadcast, steps |-> r.steps]
        IN done(NewTaggedBroadcast(wire, address))
    /\ UNCHANGED <<wire, inv>>

(***************************************************************************)
(* The network: the object opened is the one created, or what another      *)
(* sender or an attacker who knows the address makes of it.                *)
(***************************************************************************)
ReceiveKinds == {"legacy", "unparsable", "forged", "forwarded", "longsig",
                 "truncated", "malformed"}

Resealed(msg, data, signature) ==
    [msg EXCEPT !.encrypted.plain =
        encodeForEncryption(NewBuffer, NewBroadcast(msg, data, signature)).w.buf]

Received(msg, private, kind, a, x) ==
    LET other == (private.SigningKey % NumKeys) + 1
        variant(data, signable, payload) ==
            CASE kind = "legacy" ->
                   Resealed(msg, data, SignSerialize(private.SigningKey, Sha1(signable)))
              [] kind = "unparsable" ->
                   Resealed(msg, data, Repeat(0, x))
              [] kind = "forged" ->
                   Resealed(msg, data, SignSerialize(other, Sha256(signable)))
              [] kind = "forwarded" ->
                   IF msg.version = TaggedBroadcastVersion
                   THEN [msg EXCEPT !.encrypted.to = V5BroadcastDecryptionKey(a),
                                    !.tag = Tag(a)]
                   ELSE [msg EXCEPT !.encrypted.to = V4BroadcastDecryptionKey(a)]
              [] kind = "longsig" ->
                   [msg EXCEPT !.encrypted.plain =
                       payload \o VarIntBytes(SignatureMaxLength + x)
                               \o Repeat(0, SignatureMaxLength + x)]
              [] kind = "truncated" ->
                   [msg EXCEPT !.encrypted.plain = SubSeq(@, 1, Len(@) - x)]
              [] OTHER ->
                   [msg EXCEPT !.encrypted.malformed = TRUE]
        content(data) ==
            variant(data,
                    encodeForSigning(NewBuffer, NewBroadcast(msg, data, <<>>)).w.buf,
                    encodeBroadcast(NewBuffer, data).w.buf)
    IN content(decodeFromDecrypted(msg.encrypted.plain).data)

Receive ==
    /\ call.op \in {"CreateTaglessBroadcast", "CreateTaggedBroadcast"}
    /\ ~wire.nil
    /\ \E kind \in ReceiveKinds, a \in Addresses, x \in 1..MaxExtraSig :
        /\ kind # "forwarded" => a = call.private.address
        /\ kind \in {"legacy", "forged", "malformed"} => x = 1
        /\ wire' = Received(wire, call.private, kind, a, x)
        /\ call' = [op |-> "Receive", kind |-> kind, private |-> call.private]
    /\ UNCHANGED inv

Next ==
    \/ DoCreateTagless
    \/ DoCreateTagged
    \/ Receive
    \/ DoNewTagless
    \/ DoNewTagged

Spec == Init /\ [][Next]_vars

(***************************************************************************)
(* The codec on its own, driven as the package's tests drive it: a round   *)
(* trip through a buffer, an encoding and a decoding capped at max bytes,   *)
(* and a decoding of bytes whose signature length field was rewritten.     *)
(***************************************************************************)
CodecBehaviors == {0, 1000}
CodecPowValues == {0, 1000}

CodecMessages ==
    {NewBitmessage(PubKeyBytes(k), PubKeyBytes(NumKeys - k), b, nt, 1000 - nt, Nil, body) :
        k \in 0..NumKeys, b \in CodecBehaviors, nt \in CodecPowValues, body \in Bodies}

\* signatures a Broadcast holds: none yet, a serialized one, the longest decoded
CodecSignatures == {<<>>, Repeat(9, DERSigLen), Repeat(9, SignatureMaxLength)}

CodecBroadcasts == {NewBroadcast(Nil, m, sig) : m \in CodecMessages, sig \in CodecSignatures}

CodecRoundTrip ==
    /\ call.op = "init"
    /\ \E b \in CodecBroadcasts :
        LET decoded(e, d) ==
                call' = [op |-> "RoundTrip", in |-> b, encErr |-> e.err,
                         buf |-> e.w.buf, decErr |-> d.err, data |-> d.data,
                         signature |-> d.signature]
            encoded(e) == decoded(e, decodeFromDecrypted(e.w.buf))
        IN encoded(encodeForEncryption(NewBuffer, b))
    /\ UNCHANGED <<wire, inv>>

CodecTruncate ==
    /\ call.op = "init"
    /\ \E b \in CodecBroadcasts :
        LET capped(full, max, e, d) ==
                call' = [op |-> "Truncate", in |-> b, max |-> max, full |-> Len(full),
                         encErr |-> e.err, written |-> Len(e.w.buf), decErr |-> d.err]
            cut(full) ==
                \E max \in 0..Len(full) :
                    capped(full, max, encodeForEncryption(NewFixedWriter(max), b),
                           decodeFromDecrypted(SubSeq(full, 1, max)))
        IN cut(encodeForEncryption(NewBuffer, b).w.buf)
    /\ UNCHANGED <<wire, inv>>

CodecDecodeLength ==
    /\ call.op = "init"
    /\ \E m \in CodecMessages,
          declared \in {0, 1, SignatureMaxLength - 1} \cup
                       (SignatureMaxLength .. SignatureMaxLength + MaxExtraSig),
          present \in {0, DERSigLen, SignatureMaxLength + MaxExtraSig} :
        LET decoded(d) ==
                call' = [op |-> "DecodeLength", data |-> m, declared |-> declared,
                         present |-> present, err |-> d.err, alloc |-> d.alloc,
                         sigRead |-> d.sigRead, signature |-> d.signature]
        IN decoded(decodeFromDecrypted(encodeBroadcast(NewBuffer, m).w.buf
                       \o VarIntBytes(declared) \o Repeat(9, present)))
    /\ UNCHANGED <<wire, inv>>

CodecNext ==
    \/ CodecRoundTrip
    \/ CodecTruncate
    \/ CodecDecodeLength

CodecSpec == Init /\ [][CodecNext]_vars

(***************************************************************************)
(* wire.MsgInv: the list of inventory vectors of an inv message.  A slice  *)
(* is its elements and the capacity of its backing array.  The package     *)
(* sets MaxInvPerMsg to 50,000 and defaultInvListAlloc to 1000; the model  *)
(* keeps every comparison against them and lowers the two numbers.         *)
(***************************************************************************)
MaxInvPerMsg == 3
defaultInvListAlloc == 2
MaxSizeHint == 5     \* size hints 0..MaxSizeHint are drawn
HashSize == 32       \* bytes of an inventory vector

MakeSlice(capacity) == [items |-> <<>>, cap |-> capacity]

\* append: the backing array grows when it is full
append(slice, x) ==
    [items |-> Append(slice.items, x),
     cap |-> IF Len(slice.items) < slice.cap THEN slice.cap
             ELSE IF slice.cap = 0 THEN 1 ELSE 2 * slice.cap]

\* &MsgInv{}
ZeroMsgInv == [nil |-> FALSE, InvList |-> MakeSlice(0)]

\* NewMsgInv
NewMsgInv == [nil |-> FALSE, InvList |-> MakeSlice(defaultInvListAlloc)]

\* NewMsgInvSizeHint
NewMsgInvSizeHint(sizeHint) ==
    [nil |-> FALSE,
     InvList |-> MakeSlice(IF sizeHint > MaxInvPerMsg THEN MaxInvPerMsg ELSE sizeHint)]

\* MsgInv.AddInvVect with the test made on the length before the addition
AddInvVect_OffByOne(msg, iv) ==
    IF Len(msg.InvList.items) > MaxInvPerMsg
    THEN [msg |-> msg, err |-> "MessageError: MsgInv.AddInvVect"]
    ELSE [msg |-> [msg EXCEPT !.InvList = append(@, iv)], err |-> "nil"]

\* MsgInv.AddInvVect
AddInvVect(msg, iv) ==
    IF Len(msg.InvList.items) + 1 > MaxInvPerMsg
    THEN [msg |-> msg, err |-> "MessageError: MsgInv.AddInvVect"]
    ELSE [msg |-> [msg EXCEPT !.InvList = append(@, iv)], err |-> "nil"]

\* readInvVect: the hash of the vector, read in full
readInvVect(r) == ReadFull(r, HashSize)

\* the loop of MsgInv.Decode from its i-th round on; the error of AddInvVect
\* is not looked at
RECURSIVE decodeInvList(_, _, _, _)
decodeInvList(msg, r, count, i) ==
    LET round(iv) ==
            IF iv.err # "nil"
            THEN [msg |-> msg, err |-> iv.err, alloc |-> count, reads |-> i + 1]
            ELSE decodeInvList(AddInvVect(msg, iv.bytes).msg, iv.rest, count, i + 1)
    IN IF i >= count
       THEN [msg |-> msg, err |-> "nil", alloc |-> count, reads |-> i]
       ELSE round(readInvVect(r))

\* MsgInv.Decode without the limit on the count
Decode_NoLimit(msg, r) ==
    LET counted(c) ==
            IF c.err # "nil"
            THEN [msg |-> msg, err |-> c.err, alloc |-> -1, reads |-> 0]
            ELSE decodeInvList([msg EXCEPT !.InvList = MakeSlice(c.val)],
                               c.rest, c.val, 0)
    IN counted(ReadVarInt(r))

\* MsgInv.Decode; alloc is the capacity asked of make (-1: make was not
\* called) and reads the number of calls of readInvVect
Decode(msg, r) ==
    LET counted(c) ==
            IF c.err # "nil"
            THEN [msg |-> msg, err |-> c.err, alloc |-> -1, reads |-> 0]
            ELSE IF c.val > MaxInvPerMsg
            THEN [msg |-> msg, err |-> "MessageError: MsgInv.Decode",
                  alloc |-> -1, reads |-> 0]
            ELSE decodeInvList([msg EXCEPT !.InvList = MakeSlice(c.val)],
                               c.rest, c.val, 0)
    IN counted(ReadVarInt(r))

\* MsgInv.Encode
Encode(w, msg) ==
    LET vectors(c) == IF c.err # "nil" THEN c ELSE WriteSeq(c.w, msg.InvList.items)
    IN IF Len(msg.InvList.items) > MaxInvPerMsg
       THEN [w |-> w, err |-> "MessageError: MsgInv.Encode"]
       ELSE vectors(WriteVarInt(w, Len(msg.InvList.items)))

(***************************************************************************)
(* A caller of MsgInv: it makes a message, adds vectors, encodes it and    *)
(* decodes into it what a peer sent.                                       *)
(***************************************************************************)
InvVects == {Repeat(1, HashSize), Repeat(2, HashSize)}

SizeHints == 0..MaxSizeHint

RECURSIVE Concat(_)
Concat(chunks) == IF Len(chunks) = 0 THEN <<>> ELSE Head(chunks) \o Concat(Tail(chunks))

\* counts a peer declares: within the maximum, one above it, and large ones
\* in the two- and four-byte forms
DeclaredCounts == (0..(MaxInvPerMsg + 1)) \cup {253, 70000}

\* the vectors a peer sends: k vectors that alternate from the first one on
SentVectors ==
    {[i \in 1..k |-> Repeat(((first + i) % 2) + 1, HashSize)] :
        k \in 0..(MaxInvPerMsg + 1), first \in 0..1}

\* what a peer sends: a count, vectors, and possibly part of a further vector;
\* or a stream that ends within the count
InvStreams ==
    {VarIntBytes(c) \o Concat(vs) \o part :
        c \in DeclaredCounts, vs \in SentVectors, part \in {<<>>, <<7>>}}
    \cup {<<>>, <<253>>, <<254, 0, 1>>}

\* writers handed to Encode: a buffer, or a fixed writer of this capacity
InvWriters == {NewBuffer, NewFixedWriter(0), NewFixedWriter(HashSize)}

InvNewMsgInv ==
    /\ inv.nil
    /\ inv' = NewMsgInv
    /\ call' = [op |-> "NewMsgInv"]
    /\ UNCHANGED wire

InvNewMsgInvSizeHint ==
    /\ inv.nil
    /\ \E sizeHint \in SizeHints :
        /\ inv' = NewMsgInvSizeHint(sizeHint)
        /\ call' = [op |-> "NewMsgInvSizeHint", sizeHint |-> sizeHint]
    /\ UNCHANGED wire

InvAddInvVect ==
    /\ ~inv.nil
    /\ \E iv \in InvVects :
        LET done(r) ==
                /\ inv' = r.msg
                /\ call' = [op |-> "AddInvVect", before |-> inv, iv |-> iv,
                            err |-> r.err]
        IN done(AddInvVect(inv, iv))
    /\ UNCHANGED wire

InvEncode ==
    /\ ~inv.nil
    /\ \E w \in InvWriters :
        LET done(r) ==
                call' = [op |-> "Encode", msg |-> inv, cap |-> w.cap,
                         err |-> r.err, buf |-> r.w.buf]
        IN done(Encode(w, inv))
    /\ UNCHANGED <<wire, inv>>

\* the receiver is the caller's message, or a new &MsgInv{}
InvDecode ==
    /\ \E r \in InvStreams :
        LET done(before, d) ==
                /\ inv' = d.msg
                /\ call' = [op |-> "Decode", before |-> before, in |-> r,
                            err |-> d.err, alloc |-> d.alloc, reads |-> d.reads]
            into(receiver) == done(receiver, Decode(receiver, r))
        IN into(IF inv.nil THEN ZeroMsgInv ELSE inv)
    /\ UNCHANGED wire

InvNext ==
    \/ InvNewMsgInv
    \/ InvNewMsgInvSizeHint
    \/ InvAddInvVect
    \/ InvEncode
    \/ InvDecode

InvSpec == Init /\ [][InvNext]_vars

(***************************************************************************)
(* identity.ImportWIF and ExportWIF.  The text of an address is the one    *)
(* Address.String gives; a key in wallet import format is a prefix, the    *)
(* key and a checksum.                                                     *)
(***************************************************************************)
WIFPrefix == 128

WIFChecksum(key) == (WIFPrefix + 3 * key) % 256

\* bmutil.EncodeWIF
EncodeWIF(key) == <<WIFPrefix, key, WIFChecksum(key)>>

\* bmutil.DecodeWIF
DecodeWIF(w) ==
    IF Len(w) # Len(EncodeWIF(0)) \/ w[1] # WIFPrefix
    THEN [err |-> "malformed private key", key |-> 0]
    ELSE IF w[3] # WIFChecksum(w[2])
    THEN [err |-> "checksum mismatch", key |-> 0]
    ELSE IF w[2] \notin KeyIds
    THEN [err |-> "malformed private key", key |-> 0]
    ELSE [err |-> "nil", key |-> w[2]]

\* bmutil.DecodeAddress: the inverse of Address.String on the texts of
\* addresses of a known version, an error on every other text
DecodeAddress(s) ==
    LET parsed(version, stream) ==
            IF version \notin {2, 3, 4} \/ stream = 0
            THEN [err |-> "ErrUnknownAddressType", address |-> Nil]
            ELSE [err |-> "nil",
                  address |-> createAddress(version, stream, SubSeq(s, 2, Len(s)))]
    IN IF Len(s) # Len(hashHelper(SerializeUncompressed(0), SerializeUncompressed(0))) + 1
       THEN [err |-> "ErrChecksumMismatch", address |-> Nil]
       ELSE parsed(s[1] \div 16, s[1] % 16)

\* the ripe hash of the identity's own keys (Private.hash)
hash(id) ==
    hashHelper(SerializeUncompressed(id.SigningKey),
               SerializeUncompressed(id.DecryptionKey))

\* ImportWIF returning the identity without comparing the ripe hashes
ImportWIF_NoCheck(address, signingKeyWif, decryptionKeyWif, nonceTrials, extraBytes) ==
    LET result(err, priv) == [err |-> err, priv |-> priv]
        made(addr, priv) ==
            result("nil", [priv EXCEPT !.address =
                              createAddress(addr.version, addr.stream, hash(priv))])
        keys(addr, s, d) ==
            IF s.err # "nil"
            THEN result("signing key decode failed: " \o s.err, Nil)
            ELSE IF d.err # "nil"
            THEN result("encryption key decode failed: " \o d.err, Nil)
            ELSE made(addr, [nil |-> FALSE, address |-> addr,
                             SigningKey |-> s.key, DecryptionKey |-> d.key,
                             Behavior |-> 0, NonceTrialsPerByte |-> nonceTrials,
                             ExtraBytes |-> extraBytes])
        decoded(a) ==
            IF a.err # "nil" THEN result(a.err, Nil)
            ELSE keys(a.address, DecodeWIF(signingKeyWif), DecodeWIF(decryptionKeyWif))
    IN decoded(DecodeAddress(address))

\* ImportWIF
ImportWIF(address, signingKeyWif, decryptionKeyWif, nonceTrials, extraBytes) ==
    LET result(err, priv) == [err |-> err, priv |-> priv]
        checked(addr, priv) ==
            IF priv.address.ripe # addr.ripe
            THEN result("address does not correspond to private keys", Nil)
            ELSE result("nil", priv)
        made(addr, priv) ==
            checked(addr, [priv EXCEPT !.address =
                              createAddress(addr.version, addr.stream, hash(priv))])
        keys(addr, s, d) ==
            IF s.err # "nil"
            THEN result("signing key decode failed: " \o s.err, Nil)
            ELSE IF d.err # "nil"
            THEN result("encryption key decode failed: " \o d.err, Nil)
            ELSE made(addr, [nil |-> FALSE, address |-> addr,
                             SigningKey |-> s.key, DecryptionKey |-> d.key,
                             Behavior |-> 0, NonceTrialsPerByte |-> nonceTrials,
                             ExtraBytes |-> extraBytes])
        decoded(a) ==
            IF a.err # "nil" THEN result(a.err, Nil)
            ELSE keys(a.address, DecodeWIF(signingKeyWif), DecodeWIF(decryptionKeyWif))
    IN decoded(DecodeAddress(address))

\* Private.ExportWIF
ExportWIF(id) ==
    [address |-> String(id.address),
     signingKeyWif |-> EncodeWIF(id.SigningKey),
     decryptionKeyWif |-> EncodeWIF(id.DecryptionKey)]

(***************************************************************************)
(* A caller of ImportWIF: it imports texts it was given, or the texts an   *)
(* identity was exported to.                                               *)
(***************************************************************************)
WIFIdentities ==
    {NewPrivate(sk, dk, v, st, 0, nt, nt) :
        sk \in KeyIds, dk \in KeyIds, v \in Versions, st \in Streams, nt \in PowValues}

\* texts of addresses, and texts that are none: empty, cut short, of an
\* unknown version, of stream 0
AddressTexts ==
    {String(p.address) : p \in WIFIdentities}
    \cup {<<>>, <<4 * 16 + 1, 1>>, <<1 * 16 + 1, 1, 1>>, <<4 * 16, 1, 1>>}

\* keys in wallet import format, and texts that are none: empty, a wrong
\* checksum, a wrong prefix, no key
WIFTexts ==
    {EncodeWIF(k) : k \in KeyIds}
    \cup {<<>>, <<WIFPrefix, 1, 0>>, <<0, 1, WIFChecksum(1)>>, EncodeWIF(0)}

DoImportWIF ==
    /\ call.op \in {"init", "ExportWIF"}
    /\ \E address \in AddressTexts, signingKeyWif \in WIFTexts,
          decryptionKeyWif \in WIFTexts, nt \in PowValues :
        LET exported == [address |-> address, signingKeyWif |-> signingKeyWif,
                         decryptionKeyWif |-> decryptionKeyWif]
            done(r) ==
                call' = [op |-> "ImportWIF", address |-> address,
                         signingKeyWif |-> signingKeyWif,
                         decryptionKeyWif |-> decryptionKeyWif,
                         nonceTrials |-> nt, extraBytes |-> nt,
                         err |-> r.err, out |-> r.priv]
        IN /\ call.op = "ExportWIF" => call.out = exported
           /\ done(ImportWIF(address, signingKeyWif, decryptionKeyWif, nt, nt))
    /\ UNCHANGED <<wire, inv>>

DoExportWIF ==
    /\ call.op \in {"init", "ImportWIF"}
    /\ \E id \in WIFIdentities :
        /\ call.op = "ImportWIF" => (~call.out.nil /\ id.address = call.out.address
                                      /\ id.SigningKey = call.out.SigningKey
                                      /\ id.DecryptionKey = call.out.DecryptionKey
                                      /\ id.NonceTrialsPerByte = call.out.NonceTrialsPerByte)
        /\ call' = [op |-> "ExportWIF", id |-> id, out |-> ExportWIF(id)]
    /\ UNCHANGED <<wire, inv>>

WIFNext ==
    \/ DoImportWIF
    \/ DoExportWIF

WIFSpec == Init /\ [][WIFNext]_vars

(***************************************************************************)
(* Properties of the pipeline (specification Spec).                        *)
(***************************************************************************)
CreateOps == {"CreateTaglessBroadcast", "CreateTaggedBroadcast"}
OpenOps == {"NewTaglessBroadcast", "NewTaggedBroadcast"}

CryptoSteps == {"encodeForSigning", "hash", "sign", "encodeForEncryption", "encrypt"}

StepSet(steps) == {steps[i] : i \in 1..Len(steps)}

\* C1: a create call on a Bitmessage with a non-nil Destination returns a nil
\* Broadcast and a non-nil error, and no signing-encoding, hashing, signing
\* or encryption step was performed in that call.
C1_DestinationRejectedFirst ==
    (call.op \in CreateOps /\ ~call.data.Destination.nil)
        => /\ call.out.nil
           /\ call.err # "nil"
           /\ StepSet(call.steps) \cap CryptoSteps = {}

C1_Witness ==
    /\ call.op = "CreateTaggedBroadcast"
    /\ ~call.data.Destination.nil
    /\ call.signErr = "nil" /\ call.encryptErr = "nil"
    /\ call.err = "Broadcasts do not have a destination."

\* C2: NewTaggedBroadcast on an object whose cleartext tag differs from the tag
\* derived from the address returns ErrInvalidIdentity and a nil Broadcast, and
\* decryption was not attempted.
C2_TagMismatchShortCircuits ==
    (call.op = "NewTaggedBroadcast" /\ call.msg.tag # Tag(call.address))
        => /\ call.err = ErrInvalidIdentity
           /\ call.out.nil
           /\ "decrypt" \notin StepSet(call.steps)

\* the object was encrypted to this address's key, only the tag differs
C2_Witness ==
    /\ call.op = "NewTaggedBroadcast"
    /\ call.msg.tag # Tag(call.address)
    /\ call.msg.encrypted.to = V5BroadcastDecryptionKey(call.address)
    /\ call.err = ErrInvalidIdentity

\* what the steps of an open call gave: the tag filter, the decryption, the
\* decoding, the keys, the regenerated address and the signature
Opened(msg, address) ==
    LET tagged == msg.version = TaggedBroadcastVersion
        signature(dd, sk, sig, signable) ==
            [parsed |-> sig.err = "nil",
             primary |-> sig.err = "nil" /\ Verify(sig, Sha256(signable), sk.key),
             legacy |-> sig.err = "nil" /\ Verify(sig, Sha1(signable), sk.key)]
        keys(d, dd, sk, ek) ==
            [tagOk |-> tagged => msg.tag = Tag(address),
             decryptErr |-> d.err,
             decodeErr |-> IF d.err = "nil" THEN dd.err ELSE "not reached",
             sigLen |-> Len(dd.signature),
             keysOk |-> sk.err = "nil" /\ ek.err = "nil",
             genAddr |-> IF sk.err = "nil" /\ ek.err = "nil"
                         THEN String(NewPublicAddress(sk.key, ek.key, dd.data.Behavior,
                                         dd.data.Pow, address.version, address.stream))
                         ELSE <<>>,
             sig |-> signature(dd, sk, ParseSignature(dd.signature),
                        encodeForSigning(NewBuffer,
                            NewBroadcast(msg, dd.data, dd.signature)).w.buf)]
        decoded(d, dd) ==
            keys(d, dd, ToBtcec(dd.data.SigningKey), ToBtcec(dd.data.EncryptionKey))
        decrypted(d) == decoded(d, decodeFromDecrypted(d.dec))
    IN decrypted(Decrypt(IF tagged THEN V5BroadcastDecryptionKey(address)
                         ELSE V4BroadcastDecryptionKey(address), msg.encrypted))

\* the steps of the last open call
LastOpened == Opened(call.msg, call.address)

\* every step succeeded: tag, decryption, decoding within the signature
\* maximum, address regeneration, signature
Clean(o, address) ==
    /\ o.tagOk
    /\ o.decryptErr = "nil"
    /\ o.decodeErr = "nil"
    /\ o.sigLen <= SignatureMaxLength
    /\ o.keysOk
    /\ o.genAddr = String(address)
    /\ o.sig.primary \/ o.sig.legacy

\* C3: an open call returns a non-nil Broadcast, with a nil error, only if every
\* step of the pipeline succeeded; in every other case it returns a nil
\* Broadcast and a non-nil error.
C3_AllOrNothing ==
    call.op \in OpenOps
        => /\ call.out.nil <=> call.err # "nil"
           /\ ~call.out.nil <=> Clean(LastOpened, call.address)
           /\ ~call.out.nil => call.out.msg = call.msg

C3_Witness ==
    /\ call.op = "NewTaglessBroadcast"
    /\ ~call.out.nil
    /\ call.err = "nil"

\* the object decrypted and decoded and carries keys of the curve
AtAddressCheck(o) ==
    o.tagOk /\ o.decryptErr = "nil" /\ o.decodeErr = "nil" /\ o.keysOk

Mismatch(o, address) == AtAddressCheck(o) /\ o.genAddr # String(address)

\* C4 (as claimed): when the address regenerated from the embedded keys differs
\* from the address used to decrypt, opening fails with ErrInvalidIdentity, the
\* error a caller tests for.
C4_SpoofingIsInvalidIdentity ==
    (call.op \in OpenOps /\ Mismatch(LastOpened, call.address))
        => call.err = ErrInvalidIdentity

SignatureChecked(o) ==
    LET tried == SubSeq(call.steps, 7, Len(call.steps))
    IN /\ call.err = "nil" <=> (o.sig.primary \/ o.sig.legacy)
       /\ call.err # "nil" => call.err = ErrInvalidSignature /\ call.out.nil
       /\ ~o.sig.parsed => tried = <<>>
       /\ o.sig.primary => tried = <<"verifySha256">>
       /\ (o.sig.parsed /\ ~o.sig.primary) => tried = <<"verifySha256", "verifySha1">>

PastAddressCheck(o) ==
    call.op \in OpenOps /\ AtAddressCheck(o) /\ o.genAddr = String(call.address)

\* C5: once the address check has passed, verify accepts exactly when the
\* signature parses and verifies under the embedded signing key against the
\* SHA-256 hash of the signable encoding or against its SHA-1 hash; the SHA-256
\* hash is tried first and the SHA-1 hash only after it failed; every other
\* signature gives ErrInvalidSignature.
C5_PrimaryThenLegacy ==
    LET holds(o) == PastAddressCheck(o) => SignatureChecked(o)
    IN call.op \in OpenOps => holds(LastOpened)

\* a signature made over the legacy hash is accepted after the primary failed
C5_Witness ==
    /\ call.op \in OpenOps
    /\ call.err = "nil"
    /\ ~call.out.nil
    /\ "verifySha1" \in StepSet(call.steps)

DecryptFailed(o) ==
    (o.tagOk /\ o.decryptErr # "nil")
        => /\ call.out.nil
           /\ call.steps = <<"decrypt">>
           /\ call.err = IF o.decryptErr = ErrInvalidMAC THEN ErrInvalidIdentity
                          ELSE o.decryptErr

\* C6: when the decryption of an open call fails, no Broadcast is returned and
\* the error is ErrInvalidIdentity if the primitive reported an invalid MAC and
\* the primitive's own error otherwise.
C6_DecryptFailure ==
    call.op \in OpenOps => DecryptFailed(LastOpened)

\* a failure of the primitive that is no MAC mismatch, returned as it is
C6_Witness ==
    /\ call.op \in OpenOps
    /\ call.steps = <<"decrypt">>
    /\ call.err = "btcec: input too short"

\* the message carries the keys, behavior and POW parameters of the identity
OwnMessage(data, private) ==
    /\ data.SigningKey = PubKeyBytes(private.SigningKey)
    /\ data.EncryptionKey = PubKeyBytes(private.DecryptionKey)
    /\ data.Behavior = private.Behavior
    /\ data.Pow.NonceTrialsPerByte = private.NonceTrialsPerByte
    /\ data.Pow.ExtraBytes = private.ExtraBytes

\* C8: a broadcast created from a message carrying the identity's own keys,
\* behavior and POW parameters (tagged: with the tag of the identity's address)
\* and then opened with the identity's address gives a nil error and a
\* Bitmessage equal to the one given to the create call.
C8_EndToEnd ==
    [][ ( /\ call.op \in CreateOps
          /\ call.err = "nil"
          /\ OwnMessage(call.data, call.private)
          /\ call.op = "CreateTaggedBroadcast" => call.tag = Tag(call.private.address)
          /\ call'.op \in OpenOps
          /\ call'.address = call.private.address )
        => ( /\ call'.err = "nil"
             /\ ~call'.out.nil
             /\ call'.out.data = call.data
             /\ call'.out.msg = wire ) ]_vars

\* a tagged broadcast opened through the primary hash
C8_Witness ==
    /\ call.op = "NewTaggedBroadcast"
    /\ call.err = "nil"
    /\ ~call.out.nil
    /\ call.steps = <<"decrypt", "decode", "addressCheck", "encodeForSigning",
                      "hash", "parseSignature", "verifySha256">>
    /\ Len(call.out.data.Body) > 0

(***************************************************************************)
(* Properties of the codec (specification CodecSpec).                      *)
(***************************************************************************)
\* C7: decodeFromDecrypted fails whenever the decoded signature length exceeds
\* SignatureMaxLength, however many bytes follow, and no signature buffer was
\* allocated or read.
C7_SignatureLengthBound ==
    (call.op = "DecodeLength" /\ call.declared > SignatureMaxLength)
        => /\ call.err = "MessageError: DecodeFromDecrypted"
           /\ call.alloc = -1
           /\ ~call.sigRead

\* the declared bytes are all there
C7_Witness ==
    /\ call.op = "DecodeLength"
    /\ call.declared > SignatureMaxLength
    /\ call.present >= call.declared
    /\ call.err # "nil"

\* the wire bytes of a payload, field by field
PayloadBytes(m) ==
    BE(m.Behavior, 4) \o m.SigningKey \o m.EncryptionKey
        \o VarIntBytes(m.Pow.NonceTrialsPerByte) \o VarIntBytes(m.Pow.ExtraBytes)
        \o VarIntBytes(Len(m.Body)) \o m.Body

\* C9: encodeForEncryption into a buffer succeeds and writes the payload, the
\* varint length of the signature and the signature; decodeFromDecrypted of
\* those bytes succeeds and gives back the keys, POW parameters, behavior and
\* body (and the signature).
C9_CodecRoundTrip ==
    call.op = "RoundTrip"
        => /\ call.encErr = "nil"
           /\ call.buf = PayloadBytes(call.in.data)
                            \o VarIntBytes(Len(call.in.signature))
                            \o call.in.signature
           /\ call.decErr = "nil"
           /\ call.data.SigningKey = call.in.data.SigningKey
           /\ call.data.EncryptionKey = call.in.data.EncryptionKey
           /\ call.data.Pow = call.in.data.Pow
           /\ call.data.Behavior = call.in.data.Behavior
           /\ call.data.Body = call.in.data.Body
           /\ call.signature = call.in.signature

C9_Witness ==
    /\ call.op = "RoundTrip"
    /\ call.decErr = "nil"
    /\ Len(call.in.signature) = DERSigLen
    /\ Len(call.in.data.Body) > 0
    /\ call.in.data.Behavior > 0

\* C10: with L the length of the full encoding, encoding into a writer of
\* capacity max < L fails and decoding the first max < L bytes fails.
C10_Truncation ==
    (call.op = "Truncate" /\ call.max < call.full)
        => /\ call.encErr # "nil"
           /\ call.decErr # "nil"

\* one byte short of a signed encoding
C10_Witness ==
    /\ call.op = "Truncate"
    /\ call.max = call.full - 1
    /\ Len(call.in.signature) > 0
    /\ call.encErr # "nil"
    /\ call.decErr # "nil"

\* the step of the create pipeline that ran last in the call
LastStep(steps) == IF Len(steps) = 0 THEN "none" ELSE steps[Len(steps)]

\* C11 as stated: when a step of the create pipeline fails, the create call
\* returns the error of that step itself, the same value and not a wrapped one.
C11_UnderlyingErrorUnchanged ==
    (call.op \in CreateOps /\ call.cause # "nil") => call.err = call.cause

\* C11 as amended: when a step of the create pipeline fails, the create call
\* returns a nil Broadcast; the error of an encoding step is returned as it
\* is, the error of the signing primitive as a new error reading
\* "signing failed: " and that error's text, and the error of the encryption
\* primitive as a new error reading "encryption failed: " and that error's text.
C11_ErrorOfFailedStep ==
    (call.op \in CreateOps /\ call.cause # "nil")
        => /\ call.out.nil
           /\ call.err =
                CASE LastStep(call.steps) = "sign" -> "signing failed: " \o call.cause
                  [] LastStep(call.steps) = "encrypt" -> "encryption failed: " \o call.cause
                  [] OTHER -> call.cause

\* the encryption primitive failed in a tagless create call
C11_Witness ==
    /\ call.op = "CreateTaglessBroadcast"
    /\ call.data.Destination.nil
    /\ call.encryptErr = "encrypt error"
    /\ call.cause = "encrypt error"
    /\ LastStep(call.steps) = "encrypt"
    /\ call.err = "encryption failed: encrypt error"
    /\ call.out.nil

\* the checks of the open pipeline in the order the code makes them
OpenOrder == <<"decrypt", "decode", "addressCheck", "encodeForSigning", "hash",
               "parseSignature", "verifySha256", "verifySha1">>

SignatureSteps == {"encodeForSigning", "hash", "parseSignature", "verifySha256",
                   "verifySha1"}

\* the first check that fails decides the error of the open call
FirstFailureDecides(o) ==
    /\ call.steps = SubSeq(OpenOrder, 1, Len(call.steps))
    /\ o.decryptErr # "nil" =>
          /\ call.steps = <<"decrypt">>
          /\ call.err \in {o.decryptErr, ErrInvalidIdentity}
    /\ (o.decryptErr = "nil" /\ o.decodeErr # "nil") =>
          /\ call.steps = <<"decrypt", "decode">>
          /\ call.err = o.decodeErr
    /\ Mismatch(o, call.address) =>
          /\ call.steps = <<"decrypt", "decode", "addressCheck">>
          /\ StepSet(call.steps) \cap SignatureSteps = {}
          /\ call.err = SpoofingError(String(call.address), o.genAddr)
          /\ call.err # ErrInvalidSignature
          /\ call.out.nil
    /\ (AtAddressCheck(o) /\ ~Mismatch(o, call.address)
            /\ ~(o.sig.primary \/ o.sig.legacy)) =>
          /\ "addressCheck" \in StepSet(call.steps)
          /\ call.err = ErrInvalidSignature

\* C14: an open call makes its checks in the order decrypt, decode, address
\* check, signature verification, and the first check that fails decides the
\* error: an object whose embedded keys do not regenerate the decrypting address
\* gets the possible-spoofing error, which is not ErrInvalidSignature, and no
\* signature step runs, also when the signature is invalid as well.
C14_FirstFailingCheck ==
    LET holds(o) == o.tagOk => FirstFailureDecides(o)
    IN call.op \in OpenOps => holds(LastOpened)

\* keys that do not regenerate the address, under a signature that verifies
\* against neither hash
C14_SpoofedAndForged(o) ==
    /\ Mismatch(o, call.address)
    /\ ~(o.sig.primary \/ o.sig.legacy)
    /\ call.err = SpoofingError(String(call.address), o.genAddr)
    /\ call.steps = <<"decrypt", "decode", "addressCheck">>

C14_Witness ==
    /\ call.op \in OpenOps
    /\ C14_SpoofedAndForged(LastOpened)

(***************************************************************************)
(* Properties of MsgInv (specification InvSpec).                           *)
(***************************************************************************)
\* the i-th vector of the bytes that follow the count
VectorAt(r, i) == SubSeq(r, (i - 1) * HashSize + 1, i * HashSize)

\* c is the count read from the input of the last Decode call
DecodedAsDeclared(c) ==
    /\ (c.err = "nil" /\ c.val > MaxInvPerMsg) =>
          /\ call.err = "MessageError: MsgInv.Decode"
          /\ call.alloc = -1
          /\ call.reads = 0
          /\ inv = call.before
    /\ call.err = "nil" =>
          /\ c.err = "nil"
          /\ call.alloc = c.val
          /\ Len(inv.InvList.items) = c.val
          /\ inv.InvList.items = [i \in 1..c.val |-> VectorAt(c.rest, i)]

\* C12: Decode answers a declared count above MaxInvPerMsg with its message
\* error, having called neither make nor readInvVect; when Decode succeeds the
\* receiver's InvList holds as many vectors as declared, in the order they came.
C12_DecodeCountLimit ==
    call.op = "Decode" => DecodedAsDeclared(ReadVarInt(call.in))

\* one vector more than the maximum declared, and all of them present
C12_Witness ==
    /\ call.op = "Decode"
    /\ Len(call.in) = 1 + (MaxInvPerMsg + 1) * HashSize
    /\ call.in[1] = MaxInvPerMsg + 1
    /\ call.err = "MessageError: MsgInv.Decode"
    /\ call.reads = 0

\* the last AddInvVect call refused a full list and appended to any other
AddedOrRefused(before) ==
    IF Len(before) >= MaxInvPerMsg
    THEN call.err # "nil" /\ inv = call.before
    ELSE call.err = "nil" /\ inv.InvList.items = Append(before, call.iv)

\* the last Encode call passed the test of the count, and wrote the count and
\* the vectors when its writer took them
EncodedCount(items) ==
    /\ call.err # "MessageError: MsgInv.Encode"
    /\ call.cap = -1 =>
          /\ call.err = "nil"
          /\ call.buf = VarIntBytes(Len(items)) \o Concat(items)

\* C13: a message made by NewMsgInv or NewMsgInvSizeHint and changed by
\* AddInvVect never holds more than MaxInvPerMsg vectors; AddInvVect on a list
\* of MaxInvPerMsg vectors returns an error and leaves the list as it was, any
\* other AddInvVect returns nil and appends the vector; Encode of the message
\* does not fail on the test of the count.
C13_AddInvVectKeepsLimit ==
    /\ ~inv.nil => Len(inv.InvList.items) <= MaxInvPerMsg
    /\ call.op = "AddInvVect" => AddedOrRefused(call.before.InvList.items)
    /\ call.op = "Encode" => EncodedCount(call.msg.InvList.items)

\* a vector offered to a list that is full
C13_Witness ==
    /\ call.op = "AddInvVect"
    /\ Len(call.before.InvList.items) = MaxInvPerMsg
    /\ call.err = "MessageError: MsgInv.AddInvVect"
    /\ inv = call.before

(***************************************************************************)
(* Properties of ImportWIF (specification WIFSpec).                        *)
(***************************************************************************)
\* a, s and d are what the three texts of the last ImportWIF call decode to
Imported(a, s, d) ==
    LET decode == a.err = "nil" /\ s.err = "nil" /\ d.err = "nil"
        ripe == hashHelper(SerializeUncompressed(s.key), SerializeUncompressed(d.key))
    IN /\ call.out.nil <=> call.err # "nil"
       /\ ~call.out.nil <=> (decode /\ ripe = a.address.ripe)
       /\ ~call.out.nil =>
             /\ call.out.SigningKey = s.key
             /\ call.out.DecryptionKey = d.key
             /\ call.out.address.version = a.address.version
             /\ call.out.address.stream = a.address.stream
             /\ call.out.address.ripe = hash(call.out)

\* C15: ImportWIF returns an identity only when the address and the two keys
\* decode and the ripe hash of the two keys is that of the decoded address,
\* and a nil identity with an error otherwise; the identity returned has the
\* version and the stream of the decoded address and the ripe hash of its own
\* keys.
C15_ImportWIF ==
    call.op = "ImportWIF"
        => Imported(DecodeAddress(call.address), DecodeWIF(call.signingKeyWif),
                    DecodeWIF(call.decryptionKeyWif))

\* an address and two keys that decode, the keys being those of another address
C15_KeysOfAnotherAddress(a, s, d) ==
    /\ a.err = "nil" /\ s.err = "nil" /\ d.err = "nil"
    /\ call.out.nil
    /\ call.err = "address does not correspond to private keys"

C15_Witness ==
    /\ call.op = "ImportWIF"
    /\ C15_KeysOfAnotherAddress(DecodeAddress(call.address),
                                DecodeWIF(call.signingKeyWif),
                                DecodeWIF(call.decryptionKeyWif))

====
